---- MODULE Spec2Model ----
(***************************************************************************)
(* Flippit: the monitoring loop of api_server.py, the persistence boundary *)
(* of database.py, and the acquisition classes of                          *)
(* enhanced_distributed_scraper.py and fb_scraper.py.                      *)
(*                                                                         *)
(* Time is counted in ticks of five minutes: the node cooldown             *)
(* timedelta(minutes=5) is one tick.                                       *)
(***************************************************************************)
EXTENDS Integers, Sequences, FiniteSets, TLC

\* ------------------------------------------------------------------ bounds
MaxClock == 4
MaxCycleClock == 1
MaxRows == 2
MaxYear == 2025
MaxHistory == 2
MaxRankClock == 2

\* --------------------------------------------------------------- constants
COOLDOWN == 1
BACKOFF == 60
GOOD_RESULTS == 5
MOCK_COUNT == 5

\* ------------------------------------------------------------ configuration
\* SUBSCRIPTION_LIMITS.items(): the tiers in dictionary order.
SUBSCRIPTION_LIMITS ==
    << [tier |-> "free",           interval |-> 1500, max_searches |-> 3,
        max_distance_miles |-> 25],
       [tier |-> "pro",            interval |-> 600,  max_searches |-> 15,
        max_distance_miles |-> 50],
       [tier |-> "pro_yearly",     interval |-> 600,  max_searches |-> 15,
        max_distance_miles |-> 50],
       [tier |-> "premium",        interval |-> 300,  max_searches |-> 25,
        max_distance_miles |-> 200],
       [tier |-> "premium_yearly", interval |-> 300,  max_searches |-> 25,
        max_distance_miles |-> 200] >>

\* The rows of car_searches joined with users: the active searches and the
\* subscription tier of their owner. price_max = 0 stands for NULL.
car_searches ==
    << [id |-> 1, tier |-> "premium",    price_max |-> 15000],
       [id |-> 2, tier |-> "pro_yearly", price_max |-> 16000],
       [id |-> 3, tier |-> "pro",        price_max |-> 14000] >>

SearchIds == {car_searches[i].id : i \in 1..Len(car_searches)}

SearchRow(sid) == CHOOSE r \in {car_searches[i] : i \in 1..Len(car_searches)} : r.id = sid

\* DISTRIBUTED_NODES: the configured node list.
nodes == <<"node1", "node2">>

NodeIds == {nodes[i] : i \in 1..Len(nodes)}

NoNode == "none"

\* node_cooldowns.get(id) is None
NoCooldown == -1

\* ------------------------------------------------------------------ listings
\* A candidate listing: fp is its fingerprint (title + price); shape tells how
\* the payload carried it: "str" a dict with string price / mileage, "int" a
\* dict with integer price / mileage, "junk" an element that is no dict.
\* year tells whether the year field is present.
Item(fp, shape, year) == [fp |-> fp, shape |-> shape, year |-> year]

RealFps == {1, 2}
MockFps == {3, 4, 5}
ScraperMockFp == 6
Fps == RealFps \cup MockFps

Keys == SearchIds \X Fps

EmptyTable == [k \in Keys |-> 0]

\* Number of rows of a table.
RECURSIVE SumOver(_, _)
SumOver(f, S) ==
    IF S = {} THEN 0
    ELSE LET x == CHOOSE y \in S : TRUE IN f[x] + SumOver(f, S \ {x})

Rows(table) == SumOver(table, {k \in Keys : table[k] > 0})

\* Payloads: what a 200 response of a node carries under 'listings'.
ListPayload(items) == [type |-> "list", items |-> items]
ScalarPayload == [type |-> "scalar", items |-> <<>>]

Truthy(p) == p.type = "scalar" \/ Len(p.items) > 0

NodePayloads ==
    { ListPayload(<<>>),
      ListPayload(<<Item(1, "str", TRUE)>>),
      ListPayload(<<Item(2, "str", FALSE), Item(1, "int", TRUE)>>),
      ListPayload(<<Item(1, "junk", FALSE)>>),
      ListPayload([i \in 1..GOOD_RESULTS |-> Item(1, "int", TRUE)]),
      ScalarPayload }

NodeOutcomes ==
    { [kind |-> k, payload |-> ListPayload(<<>>)] :
          k \in {"exception", "timeout", "non200", "bad_body"} }
    \cup { [kind |-> "ok", payload |-> p] : p \in NodePayloads }

\* What one Selenium session does: there is no driver, the page is a login
\* wall, an exception is raised, or listings are extracted.
SeleniumOutcomes ==
    { [kind |-> k, listings |-> <<>>] : k \in {"no_driver", "login_wall", "exception"} }
    \cup { [kind |-> "ok", listings |-> l] :
             l \in { <<>>,
                     <<Item(1, "str", TRUE)>>,
                     <<Item(1, "str", TRUE), Item(2, "str", FALSE)>> } }

\* -------------------------------------------------- DistributedScraperClient
\* The comparison with the bound included: a node would stay excluded at the
\* very instant its cooldown ends.
InCooldownInclusive(cds, id, now) == cds[id] # NoCooldown /\ now <= cds[id]

\* cooldown_until and now < cooldown_until
InCooldown(cds, id, now) == cds[id] # NoCooldown /\ now < cds[id]

\* The while loop of get_next_available_node: idx is current_node_index
\* (0-based), attempts the nodes skipped so far.
RECURSIVE NextNodeLoop(_, _, _, _)
NextNodeLoop(idx, cds, now, attempts) ==
    IF attempts < Len(nodes)
    THEN LET node == nodes[idx + 1]
             nidx == (idx + 1) % Len(nodes)
         IN  IF InCooldown(cds, node, now)
             THEN NextNodeLoop(nidx, cds, now, attempts + 1)
             ELSE [node |-> node, index |-> nidx]
    ELSE [node |-> NoNode, index |-> idx]

\* A selection that gives up without the index having gone round: it is left
\* at the first node.
get_next_available_node_rewound(idx, cds, now) ==
    LET r == NextNodeLoop(idx, cds, now, 0)
    IN  IF r.node = NoNode THEN [r EXCEPT !.index = 0] ELSE r

\* A selection that looks at the node under the index only.
get_next_available_node_single(idx, cds, now) ==
    NextNodeLoop(idx, cds, now, Len(nodes) - 1)

get_next_available_node(idx, cds, now) == NextNodeLoop(idx, cds, now, 0)

\* The nodes the while loop of get_next_available_node reads from self.nodes,
\* in the order it reads them: one per iteration, the returned one included.
RECURSIVE InspectedNodes(_, _, _, _)
InspectedNodes(idx, cds, now, attempts) ==
    IF attempts < Len(nodes)
    THEN LET node == nodes[idx + 1]
             nidx == (idx + 1) % Len(nodes)
         IN  IF InCooldown(cds, node, now)
             THEN <<node>> \o InspectedNodes(nidx, cds, now, attempts + 1)
             ELSE <<node>>
    ELSE <<>>

\* The value of current_node_index at which the node is the next one inspected.
IndexOf(node) == CHOOSE i \in 0..(Len(nodes) - 1) : nodes[i + 1] = node

\* ScraperMonitor.record_search on the node_performance entry of one node
record_search(node_stats, success) ==
    [searches |-> node_stats.searches + 1,
     successes |-> IF success THEN node_stats.successes + 1 ELSE node_stats.successes]

\* the success_rate of get_node_stats of node a is above that of node b,
\* both having searches on record (the quotients compared crosswise)
HigherSuccessRate(stats, a, b) ==
    /\ stats[a].searches > 0 /\ stats[b].searches > 0
    /\ stats[a].successes * stats[b].searches > stats[b].successes * stats[a].searches

\* A failure that is charged to every node of the pool.
scrape_with_node_charging_all(node, outcome, cds, now) ==
    IF outcome.kind = "ok"
    THEN [listings |-> outcome.payload, cooldowns |-> cds]
    ELSE [listings |-> ListPayload(<<>>),
          cooldowns |-> [n \in NodeIds |-> now + COOLDOWN]]

\* An attempt that counts an answer without listings as a failure.
scrape_with_node_charging_empty(node, outcome, cds, now) ==
    IF outcome.kind = "ok" /\ Truthy(outcome.payload)
    THEN [listings |-> outcome.payload, cooldowns |-> cds]
    ELSE [listings |-> ListPayload(<<>>),
          cooldowns |-> [cds EXCEPT ![node] = now + COOLDOWN]]

\* A status other than 200 and every exception (network error, timeout, a body
\* that is no JSON object) put the node in cooldown and return [].
scrape_with_node(node, outcome, cds, now) ==
    IF outcome.kind = "ok"
    THEN [listings |-> outcome.payload, cooldowns |-> cds]
    ELSE [listings |-> ListPayload(<<>>),
          cooldowns |-> [cds EXCEPT ![node] = now + COOLDOWN]]

\* ------------------------------------------------------ SmartFacebookScraper
\* The one element of a set of one value: Only({ F(x) : x \in { e } }) is F
\* applied to the value of e.
Only(S) == CHOOSE x \in S : TRUE

\* _try_distributed_nodes after the selection `sel`: [] without a node, the
\* answer of scrape_with_node otherwise.
ScrapeSelected(sel, cds, now, outcome) ==
    IF sel.node = NoNode
    THEN [listings |-> ListPayload(<<>>), cooldowns |-> cds,
          index |-> sel.index, node |-> NoNode]
    ELSE [listings |-> scrape_with_node(sel.node, outcome, cds, now).listings,
          cooldowns |-> scrape_with_node(sel.node, outcome, cds, now).cooldowns,
          index |-> sel.index, node |-> sel.node]

try_distributed_nodes(idx, cds, now, outcome) ==
    Only({ ScrapeSelected(sel, cds, now, outcome) :
               sel \in { get_next_available_node(idx, cds, now) } })

\* The request may fail or succeed; the parsing is a stub: always [].
try_craigslist_fallback == <<>>

\* os.getenv('USE_MOCK_DATA', 'false').lower() != 'true' -> []
try_mock_data(env) ==
    IF env # "true" THEN <<>>
    ELSE [i \in 1..MOCK_COUNT |-> Item(ScraperMockFp, "int", TRUE)]

\* A chain that stops at the first strategy with a result, however small.
RunStrategiesFirstHit(d, env) ==
    LET fromNodes == IF Truthy(d.listings) /\ d.listings.type = "list"
                     THEN d.listings.items ELSE <<>>
        stop == Len(fromNodes) >= 1
    IN  [listings |-> IF stop THEN fromNodes ELSE try_mock_data(env),
         cooldowns |-> d.cooldowns, index |-> d.index, node |-> d.node,
         strategies |-> IF stop THEN <<"distributed">>
                        ELSE <<"distributed", "craigslist", "mock">>]

\* The for loop of search, given the result `d` of the first strategy. A
\* truthy result is appended to all_listings (extend raises on a value that is
\* no iterable, and the strategy's exception is swallowed); the loop breaks
\* only after the distributed strategy returned at least 5 listings.
RunStrategies(d, env) ==
    LET fromNodes == IF Truthy(d.listings) /\ d.listings.type = "list"
                     THEN d.listings.items ELSE <<>>
        stop == Len(fromNodes) >= GOOD_RESULTS
        fromCraigslist == IF stop THEN <<>> ELSE try_craigslist_fallback
        fromMock == IF stop THEN <<>> ELSE try_mock_data(env)
    IN  [listings |-> fromNodes \o fromCraigslist \o fromMock,
         cooldowns |-> d.cooldowns, index |-> d.index, node |-> d.node,
         strategies |-> IF stop THEN <<"distributed">>
                        ELSE <<"distributed", "craigslist", "mock">>]

\* search: the strategies in order, the distributed nodes first.
smart_search(idx, cds, now, outcome, env) ==
    Only({ RunStrategies(d, env) : d \in { try_distributed_nodes(idx, cds, now, outcome) } })

\* --------------------------------------------------- EnhancedCarSearchMonitor
\* for listing in listings: listing.setdefault(...) raises on an element that
\* is no dict; the try / finally of monitor_car_search catches nothing.
SetDefaults(r) ==
    LET bad == \E i \in 1..Len(r.listings) : r.listings[i].shape = "junk"
    IN  [raised |-> bad,
         listings |-> IF bad THEN <<>> ELSE r.listings,
         cooldowns |-> r.cooldowns, index |-> r.index, node |-> r.node,
         strategies |-> r.strategies]

enhanced_monitor_car_search(idx, cds, now, outcome, env) ==
    Only({ SetDefaults(r) : r \in { smart_search(idx, cds, now, outcome, env) } })

\* ----------------------------------------------------------- CarSearchMonitor
\* SeleniumFacebookCarScraper.search_cars: [] without a driver, [] on a login
\* wall, [] on any exception, the extracted listings otherwise.
search_cars(outcome) ==
    IF outcome.kind = "ok" THEN outcome.listings ELSE <<>>

\* CarSearchMonitor() is built with use_mock_data = False.
basic_monitor_car_search(outcome) ==
    [raised |-> FALSE, listings |-> search_cars(outcome)]

\* ------------------------------------------------ SeleniumFacebookCarScraper
\* The XPath queries of _check_login_required, in the order it tries them
LoginIndicators ==
    { "button_Log_In", "button_Log_in", "a_href_login", "div_You_must_log_in",
      "div_You_must_be_logged_in" }

\* What the page shows of a wall: one of the indicators, a current_url with
\* '/login', a block page that carries none of these, or nothing
Signs == LoginIndicators \cup { "url_login", "blocked", "none" }

\* The anchors of marketplace items on the page: a car with a price, an
\* element without a price, an item that is no car, an element gone stale
Cards == { "car", "no_price", "not_a_car", "stale" }
CardSeqs == { <<>> } \cup { << a >> : a \in Cards }
                     \cup { << a, b >> : a \in Cards, b \in Cards }

\* What one session meets: fault is what breaks (no driver, driver.get
\* raising, find_elements raising), sign and cards what the page holds
Pages == [fault : { "none", "no_driver", "get", "find_elements" },
          sign : Signs, cards : CardSeqs]

IsWall(page) == page.sign # "none"

\* _check_login_required: any exception makes it answer False
check_login_required(page) ==
    IF page.fault = "find_elements" THEN FALSE
    ELSE page.sign \in LoginIndicators \cup { "url_login" }

\* the loop of _extract_listings over the elements from position i on:
\* _extract_listing_data gives None without a price, _is_valid_car_listing
\* drops what is no car, an exception skips the element
RECURSIVE ExtractFrom(_, _)
ExtractFrom(cards, i) ==
    IF i > Len(cards) THEN <<>>
    ELSE IF cards[i] = "car" THEN << Item(i, "str", TRUE) >> \o ExtractFrom(cards, i + 1)
    ELSE ExtractFrom(cards, i + 1)

\* _extract_listings: the wait for the first anchor times out on a page
\* without anchors; every exception leaves the list as it is
extract_listings(page) ==
    IF page.fault = "find_elements" \/ page.cards = <<>> THEN <<>>
    ELSE ExtractFrom(page.cards, 1)

\* the path search_cars takes on a page
SessionOutcome(page) ==
    IF page.fault = "no_driver" THEN [kind |-> "no_driver", listings |-> <<>>]
    ELSE IF page.fault = "get" THEN [kind |-> "exception", listings |-> <<>>]
    ELSE IF check_login_required(page) THEN [kind |-> "login_wall", listings |-> <<>>]
    ELSE [kind |-> "ok", listings |-> extract_listings(page)]

\* ------------------------------------------------------------- valuation glue
\* enhance_car_listing_with_values: listing['mileage'].replace and
\* listing['price'].replace raise on an integer; has_analysis needs make
\* (taken from the search), year and price.
enhance_car_listing_with_values(car) ==
    [raised |-> car.shape # "str",
     has_analysis |-> car.shape = "str" /\ car.year]

\* get_mock_cars: three cars, filtered by price_max when it is set.
get_mock_cars(search) ==
    LET cars == << [item |-> Item(3, "str", TRUE), price |-> 19500],
                   [item |-> Item(4, "str", TRUE), price |-> 15900],
                   [item |-> Item(5, "str", TRUE), price |-> 14500] >>
        keep == SelectSeq(cars, LAMBDA c : search.price_max = 0 \/ c.price <= search.price_max)
    IN  [i \in 1..Len(keep) |-> keep[i].item]

\* ---------------------------------------------------------------- persistence
NoFault == [at |-> 0, stmt |-> "none"]

\* The statement of enhanced_save_car_listings that fails, if any: getting the
\* connection, the SELECT, for the car at position `at` the INSERT into
\* car_listings, deal_scores or price_history, or the COMMIT.
Faults(cars) ==
    IF cars = <<>> THEN { NoFault }
    ELSE { NoFault }
         \cup { [at |-> 0, stmt |-> s] : s \in {"connect", "select", "commit"} }
         \cup { [at |-> k, stmt |-> s] :
                   k \in 1..Len(cars), s \in {"listing", "deal", "history"} }

\* An INSERT that keeps the first row of a key: what a 'seen' record of the
\* fingerprint would do.
BumpUnseen(table, key) == IF table[key] > 0 THEN table ELSE [table EXCEPT ![key] = 1]

\* INSERT INTO <table>: one more row for the key.
Bump(table, key) == [table EXCEPT ![key] = @ + 1]

\* The for loop of enhanced_save_car_listings from car k on, inside the
\* transaction: t holds the rows written so far, aborted tells that a failed
\* statement (swallowed by the price-history try / except) has put the
\* transaction in the failed state, in which every statement raises.
RECURSIVE SaveLoop(_, _, _, _, _, _)
SaveLoop(search_id, cars, k, t, aborted, fault) ==
    IF k > Len(cars)
    THEN [tables |-> t, aborted |-> aborted, raised |-> FALSE]
    ELSE LET car == cars[k]
             key == <<search_id, car.fp>>
             e == enhance_car_listing_with_values(car)
             stop == [tables |-> t, aborted |-> aborted, raised |-> TRUE]
             withListing == [t EXCEPT !.car_listings = Bump(@, key)]
             withDeal == IF e.has_analysis
                         THEN [withListing EXCEPT !.deal_scores = Bump(@, key)]
                         ELSE withListing
         IN  IF e.raised THEN stop
             ELSE IF aborted \/ fault = [at |-> k, stmt |-> "listing"] THEN stop
             ELSE IF e.has_analysis /\ fault = [at |-> k, stmt |-> "deal"]
                  THEN [stop EXCEPT !.tables = withListing]
             ELSE IF fault = [at |-> k, stmt |-> "history"]
                  THEN SaveLoop(search_id, cars, k + 1, withDeal, TRUE, fault)
             ELSE SaveLoop(search_id, cars, k + 1,
                           [withDeal EXCEPT !.price_history = Bump(@, key)],
                           FALSE, fault)

\* A context manager without connection.rollback(): what the body wrote
\* before it raised stays.
get_db_cursor_no_rollback(before, body, fault) ==
    IF fault.stmt = "connect" THEN [tables |-> before, raised |-> TRUE, committed |-> FALSE]
    ELSE IF body.raised THEN [tables |-> body.tables, raised |-> TRUE, committed |-> FALSE]
    ELSE IF body.aborted THEN [tables |-> before, raised |-> FALSE, committed |-> FALSE]
    ELSE IF fault.stmt = "commit" THEN [tables |-> before, raised |-> TRUE, committed |-> FALSE]
    ELSE [tables |-> body.tables, raised |-> FALSE, committed |-> TRUE]

\* get_db_cursor: commit when the body returns, rollback and re-raise when it
\* raises. `before` are the committed tables, `body` the outcome of the body.
\* A COMMIT of a transaction in the failed state is a rollback and raises
\* nothing.
get_db_cursor(before, body, fault) ==
    IF fault.stmt = "connect" THEN [tables |-> before, raised |-> TRUE, committed |-> FALSE]
    ELSE IF body.raised THEN [tables |-> before, raised |-> TRUE, committed |-> FALSE]
    ELSE IF body.aborted THEN [tables |-> before, raised |-> FALSE, committed |-> FALSE]
    ELSE IF fault.stmt = "commit" THEN [tables |-> before, raised |-> TRUE, committed |-> FALSE]
    ELSE [tables |-> body.tables, raised |-> FALSE, committed |-> TRUE]

\* The rows the body of the transaction had inserted into car_listings when it
\* ended.
Written(before, body) == Rows(body.tables.car_listings) - Rows(before.car_listings)

\* The body of `with get_db_cursor() as cursor:` in enhanced_save_car_listings:
\* the SELECT of the search, then the for loop over the cars.
SaveBody(search_id, cars, before, fault) ==
    IF fault.stmt \in {"connect", "select"}
    THEN [tables |-> before, aborted |-> FALSE, raised |-> TRUE]
    ELSE SaveLoop(search_id, cars, 1, before, FALSE, fault)

\* enhanced_save_car_listings, given the outcome `body` of its with block: the
\* tables it leaves, whether it raised, whether it committed, and the rows of
\* car_listings the body had written; history_error tells that the
\* except of the price-history try swallowed a failed INSERT.
enhanced_save_car_listings(before, body, fault) ==
    LET r == get_db_cursor(before, body, fault)
    IN  [tables |-> r.tables, raised |-> r.raised, committed |-> r.committed,
         written |-> Written(before, body), history_error |-> body.aborted]

\* ------------------------------------------------------------------ valuation
\* KBBValueEstimator computes in floating point; the model computes in fixed
\* point, FIXED units to the dollar, on non-negative magnitudes with the sign
\* carried apart, because int() truncates toward zero.
FIXED == 10000

\* v * n / d within 32 bits, for v >= 0, n >= 0, d > 0
MulDiv(v, n, d) == (v \div d) * n + ((v % d) * n) \div d

\* self.depreciation_rates, in percent
depreciation_rates == << 20, 15, 10, 8, 7 >>

\* self.mileage_adjustment_rate, 0.005 per 1000 miles: one part in
\* MILEAGE_UNIT per mile
MILEAGE_UNIT == 200000

\* self.average_miles_per_year
average_miles_per_year == 12000

\* self.condition_multipliers, in percent
condition_multipliers ==
    "excellent" :> 110 @@ "very_good" :> 105 @@ "good" :> 100 @@
    "fair" :> 90 @@ "poor" :> 75

\* self.base_msrp
base_msrp ==
    "honda" :> ("civic" :> 25000 @@
                 "accord" :> 28000 @@
                 "cr-v" :> 30000 @@
                 "pilot" :> 40000 @@
                 "odyssey" :> 38000 @@
                 "hr-v" :> 25000 @@
                 "ridgeline" :> 40000) @@
    "toyota" :> ("corolla" :> 24000 @@
                  "camry" :> 27000 @@
                  "rav4" :> 30000 @@
                  "highlander" :> 38000 @@
                  "tacoma" :> 32000 @@
                  "tundra" :> 40000 @@
                  "prius" :> 28000 @@
                  "sienna" :> 37000) @@
    "ford" :> ("mustang" :> 32000 @@
                "f-150" :> 38000 @@
                "explorer" :> 38000 @@
                "escape" :> 30000 @@
                "edge" :> 35000 @@
                "ranger" :> 30000 @@
                "expedition" :> 55000) @@
    "chevrolet" :> ("malibu" :> 26000 @@
                     "camaro" :> 28000 @@
                     "silverado" :> 38000 @@
                     "equinox" :> 28000 @@
                     "traverse" :> 35000 @@
                     "tahoe" :> 55000 @@
                     "colorado" :> 30000) @@
    "nissan" :> ("altima" :> 26000 @@
                  "sentra" :> 21000 @@
                  "rogue" :> 29000 @@
                  "pathfinder" :> 36000 @@
                  "frontier" :> 30000 @@
                  "maxima" :> 38000 @@
                  "murano" :> 34000)

\* default_prices of _get_base_price
default_prices ==
    "honda" :> 28000 @@ "toyota" :> 29000 @@ "ford" :> 32000 @@
    "chevrolet" :> 31000 @@ "nissan" :> 27000 @@ "mazda" :> 26000 @@
    "hyundai" :> 25000 @@ "kia" :> 24000 @@ "subaru" :> 28000 @@
    "volkswagen" :> 30000 @@ "bmw" :> 45000 @@ "mercedes" :> 50000 @@
    "audi" :> 45000 @@ "lexus" :> 45000 @@ "acura" :> 38000 @@
    "infiniti" :> 40000

\* default_prices.get(make, 30000)
GLOBAL_DEFAULT == 30000

\* str.lower() on the words the model's inputs are written in
LowerOf ==
    "Honda" :> "honda" @@ "Civic" :> "civic" @@ "Toyota" :> "toyota" @@
    "Camry" :> "camry" @@ "BMW" :> "bmw" @@ "X5" :> "x5" @@
    "Tesla" :> "tesla" @@ "Roadster" :> "roadster" @@ "LX" :> "lx" @@
    "Mazda" :> "mazda" @@ "CX-5" :> "cx-5"

str_lower(s) == IF s \in DOMAIN LowerOf THEN LowerOf[s] ELSE s

\* _get_base_price without the defaults by make
get_base_price_global_default(make, model, year) ==
    IF make \in DOMAIN base_msrp /\ model \in DOMAIN base_msrp[make]
    THEN IF year > 2020
         THEN base_msrp[make][model] * (FIXED \div 100) * (100 - 2 * (2024 - year))
         ELSE base_msrp[make][model] * FIXED
    ELSE GLOBAL_DEFAULT * FIXED

\* _get_base_price without the scaling of the model years after 2020
get_base_price_unscaled(make, model, year) ==
    IF make \in DOMAIN base_msrp /\ model \in DOMAIN base_msrp[make]
    THEN base_msrp[make][model] * FIXED
    ELSE IF make \in DOMAIN default_prices
         THEN default_prices[make] * FIXED
         ELSE GLOBAL_DEFAULT * FIXED

\* _get_base_price, in FIXED units; table prices of model years after 2020
\* are scaled by 1 - 0.02 * (2024 - year)
get_base_price(make, model, year) ==
    IF make \in DOMAIN base_msrp /\ model \in DOMAIN base_msrp[make]
    THEN IF year > 2020
         THEN base_msrp[make][model] * (FIXED \div 100) * (100 - 2 * (2024 - year))
         ELSE base_msrp[make][model] * FIXED
    ELSE IF make \in DOMAIN default_prices
         THEN default_prices[make] * FIXED
         ELSE GLOBAL_DEFAULT * FIXED

\* the loop of _apply_depreciation: for year in range(1, age + 1)
RECURSIVE DepreciationLoop(_, _, _)
DepreciationLoop(value, year, age) ==
    IF year > age THEN value
    ELSE LET rate == IF year <= 5 THEN depreciation_rates[year]
                     ELSE depreciation_rates[5]
         IN  DepreciationLoop(MulDiv(value, 100 - rate, 100), year + 1, age)

Max(a, b) == IF a >= b THEN a ELSE b

\* _apply_depreciation: max(value, base_price * 0.10)
apply_depreciation(base_price, age) ==
    Max(DepreciationLoop(base_price, 1, age), base_price \div 10)

\* value * parts / MILEAGE_UNIT for value >= 0 and parts >= 0, the parts
\* split in thousands to stay within 32 bits
MileageScale(value, parts) ==
    MulDiv(value, parts \div 1000, MILEAGE_UNIT \div 1000)
    + MulDiv(value \div (MILEAGE_UNIT \div 1000), parts % 1000, 1000)

\* the mileage adjustment taken from the mileage itself, not from its
\* deviation from the expected mileage
mileage_adjusted_absolute(value, mileage, car_age) ==
    IF mileage = 0 THEN value
    ELSE IF MILEAGE_UNIT - mileage >= 0
         THEN MileageScale(value, MILEAGE_UNIT - mileage)
         ELSE 0 - MileageScale(value, mileage - MILEAGE_UNIT)

\* estimate_value, lines 108-113: depreciated_value *= (1 - mileage_adjustment)
\* when the mileage is truthy (None is modelled as 0, which is falsy too)
mileage_adjusted(value, mileage, car_age) ==
    IF mileage = 0 THEN value
    ELSE LET mileage_diff == mileage - car_age * average_miles_per_year
             parts == MILEAGE_UNIT - mileage_diff
         IN  IF parts >= 0 THEN MileageScale(value, parts)
             ELSE 0 - MileageScale(value, 0 - parts)

\* int(depreciated_value * condition_mult * ratio), ratio in percent
Category(value, condition_mult, ratio) ==
    IF value >= 0
    THEN MulDiv(MulDiv(value, condition_mult, 100), ratio, 100) \div FIXED
    ELSE 0 - (MulDiv(MulDiv(0 - value, condition_mult, 100), ratio, 100) \div FIXED)

\* _calculate_confidence
calculate_confidence(make, model) ==
    IF make \in DOMAIN base_msrp /\ model \in DOMAIN base_msrp[make] THEN "high"
    ELSE IF make \in DOMAIN base_msrp THEN "medium"
    ELSE "low"

\* the values of estimate_value from the depreciated value
Values(value, condition, base_price, make, model) ==
    LET condition_mult == IF condition \in DOMAIN condition_multipliers
                          THEN condition_multipliers[condition] ELSE 100
    IN  [values |-> [trade_in |-> Category(value, condition_mult, 85),
                     private_party |-> Category(value, condition_mult, 100),
                     dealer_retail |-> Category(value, condition_mult, 115),
                     certified_preowned |-> Category(value, condition_mult, 120)],
         confidence |-> calculate_confidence(make, model),
         base_price |-> base_price,
         depreciated_value |-> value]

\* estimate_value evaluated when datetime.now().year is now; base_price and
\* depreciated_value are its locals of these names, in FIXED units
estimate_value(make, model, year, mileage, condition, now) ==
    Only({ Values(mileage_adjusted(apply_depreciation(base_price, now - year),
                                   mileage, now - year),
                  condition, base_price, str_lower(make), str_lower(model)) :
           base_price \in { get_base_price(str_lower(make), str_lower(model), year) } })

\* the rating of calculate_deal_score by score (the labels carry an emoji
\* in the source)
Rating(score) ==
    IF score >= 85 THEN "HOT DEAL"
    ELSE IF score >= 75 THEN "GREAT DEAL"
    ELSE IF score >= 65 THEN "GOOD DEAL"
    ELSE IF score >= 50 THEN "FAIR PRICE"
    ELSE "OVERPRICED"

\* price_diff_percent >= bound, price_diff_percent being
\* (price_diff / private_party_value) * 100
PercentAtLeast(price_diff, private_party_value, bound) ==
    IF private_party_value > 0
    THEN 100 * price_diff >= bound * private_party_value
    ELSE 100 * price_diff <= bound * private_party_value

\* A scale whose steps for 5% and 10% below the estimate have changed places.
ScoreStepsSwapped(price_diff, private_party_value) ==
    IF PercentAtLeast(price_diff, private_party_value, 20) THEN 95
    ELSE IF PercentAtLeast(price_diff, private_party_value, 10) THEN 75
    ELSE IF PercentAtLeast(price_diff, private_party_value, 5) THEN 85
    ELSE IF PercentAtLeast(price_diff, private_party_value, 0) THEN 65
    ELSE IF PercentAtLeast(price_diff, private_party_value, 0 - 5) THEN 50
    ELSE IF PercentAtLeast(price_diff, private_party_value, 0 - 10) THEN 35
    ELSE 20

\* the score of calculate_deal_score
Score(price_diff, private_party_value) ==
    IF PercentAtLeast(price_diff, private_party_value, 20) THEN 95
    ELSE IF PercentAtLeast(price_diff, private_party_value, 10) THEN 85
    ELSE IF PercentAtLeast(price_diff, private_party_value, 5) THEN 75
    ELSE IF PercentAtLeast(price_diff, private_party_value, 0) THEN 65
    ELSE IF PercentAtLeast(price_diff, private_party_value, 0 - 5) THEN 50
    ELSE IF PercentAtLeast(price_diff, private_party_value, 0 - 10) THEN 35
    ELSE 20

\* calculate_deal_score: the division raises ZeroDivisionError on an
\* estimate of 0
calculate_deal_score(listing_price, private_party_value) ==
    IF private_party_value = 0
    THEN [raised |-> TRUE, score |-> 0, rating |-> "none",
          listing_price |-> listing_price, estimated_value |-> private_party_value,
          below_market |-> FALSE]
    ELSE [raised |-> FALSE,
          score |-> Score(private_party_value - listing_price, private_party_value),
          rating |-> Rating(Score(private_party_value - listing_price,
                                  private_party_value)),
          listing_price |-> listing_price, estimated_value |-> private_party_value,
          below_market |-> private_party_value - listing_price > 0]

\* ---------------------------------------------------------- listing fields
\* A field of a listing dict: None, a str (its characters) or an int.
None == [kind |-> "none", text |-> <<>>, n |-> 0]
StrOf(text) == [kind |-> "str", text |-> text, n |-> 0]
IntOf(n) == [kind |-> "int", text |-> <<>>, n |-> n]

\* bool(field)
FieldTruthy(f) ==
    \/ f.kind = "str" /\ f.text # <<>>
    \/ f.kind = "int" /\ f.n # 0

DigitOf ==
    "0" :> 0 @@ "1" :> 1 @@ "2" :> 2 @@ "3" :> 3 @@ "4" :> 4 @@
    "5" :> 5 @@ "6" :> 6 @@ "7" :> 7 @@ "8" :> 8 @@ "9" :> 9

\* str.replace(old, ''): the occurrences of old are removed left to right
RECURSIVE str_remove(_, _)
str_remove(s, old) ==
    IF Len(s) < Len(old) \/ old = <<>> THEN s
    ELSE IF SubSeq(s, 1, Len(old)) = old
         THEN str_remove(SubSeq(s, Len(old) + 1, Len(s)), old)
         ELSE << Head(s) >> \o str_remove(Tail(s), old)

\* surrounding blanks, which int() ignores
RECURSIVE str_strip(_)
str_strip(s) ==
    IF s # <<>> /\ Head(s) = " " THEN str_strip(Tail(s))
    ELSE IF s # <<>> /\ s[Len(s)] = " " THEN str_strip(SubSeq(s, 1, Len(s) - 1))
    ELSE s

RECURSIVE DigitsValue(_, _)
DigitsValue(s, acc) ==
    IF s = <<>> THEN acc ELSE DigitsValue(Tail(s), 10 * acc + DigitOf[Head(s)])

\* int(s) of a str: ok is FALSE where it raises ValueError
str_int(s) ==
    LET t == str_strip(s)
    IN  IF t # <<>> /\ \A i \in 1..Len(t) : t[i] \in DOMAIN DigitOf
        THEN [ok |-> TRUE, n |-> DigitsValue(t, 0)]
        ELSE [ok |-> FALSE, n |-> 0]

\* lines 314-319: year = int(listing['year']) inside try; unknown is 0
ParsedYear(f) ==
    IF ~FieldTruthy(f) THEN 0
    ELSE IF f.kind = "int" THEN f.n
    ELSE str_int(f.text).n

\* lines 322-327: the replace chain, then int() inside try
ParsedMileage(f) ==
    IF ~FieldTruthy(f) \/ f.kind = "int" THEN 0
    ELSE str_int(str_remove(str_remove(str_remove(f.text, << "," >>),
                                       << " ", "m", "i", "l", "e", "s" >>),
                            << "m", "i", "l", "e", "s" >>)).n

\* lines 330-335
ParsedPrice(f) ==
    IF ~FieldTruthy(f) \/ f.kind = "int" THEN 0
    ELSE str_int(str_remove(str_remove(f.text, << "$" >>), << "," >>)).n

\* lines 343-348: the first brand of the list that occurs in the lowered
\* title; the title is modelled by its words
TitleBrands == << "honda", "toyota", "ford", "chevrolet", "nissan", "mazda" >>

RECURSIVE BrandIn(_, _)
BrandIn(title, i) ==
    IF i > Len(TitleBrands) THEN ""
    ELSE IF \E w \in 1..Len(title) : str_lower(title[w]) = TitleBrands[i]
         THEN TitleBrands[i]
         ELSE BrandIn(title, i + 1)

\* a listing without the keys value_estimate and deal_score
NoEstimate ==
    [values |-> [trade_in |-> 0, private_party |-> 0, dealer_retail |-> 0,
                 certified_preowned |-> 0],
     confidence |-> "none", base_price |-> 0, depreciated_value |-> 0]

NoDeal ==
    [raised |-> FALSE, score |-> 0, rating |-> "none", listing_price |-> 0,
     estimated_value |-> 0, below_market |-> FALSE]

NoEnriched ==
    [raised |-> FALSE, has_analysis |-> FALSE, year |-> 0, mileage |-> 0,
     price |-> 0, make |-> "", value_estimate |-> NoEstimate, deal_score |-> NoDeal]

\* enhanced_save_car_listings, lines 502-505: make and model of the search
\* fill what the car lacks
WithSearchDefaults(listing, search_make, search_model) ==
    [listing EXCEPT
        !.make = IF listing.make = "" /\ search_make # "" THEN search_make ELSE @,
        !.model = IF listing.model = "" /\ search_model # "" THEN search_model ELSE @]

\* the analysis of enhance_car_listing_with_values, lines 351-371
Analysed(listing, make, year, mileage, price, now) ==
    IF make # "" /\ year # 0 /\ price # 0
    THEN LET estimate == estimate_value(make, IF listing.model = "" THEN "unknown"
                                              ELSE listing.model,
                                        year, mileage, "good", now)
             deal == calculate_deal_score(price, estimate.values.private_party)
         IN  [raised |-> FALSE, has_analysis |-> ~deal.raised,
              year |-> year, mileage |-> mileage, price |-> price, make |-> make,
              value_estimate |-> IF deal.raised THEN NoEstimate ELSE estimate,
              deal_score |-> IF deal.raised THEN NoDeal ELSE deal]
    ELSE [raised |-> FALSE, has_analysis |-> FALSE,
          year |-> year, mileage |-> mileage, price |-> price, make |-> make,
          value_estimate |-> NoEstimate, deal_score |-> NoDeal]

\* enhance_car_listing_with_values evaluated in the year now: .replace on a
\* truthy mileage or price that is no str raises AttributeError outside
\* every try
enhance_listing(listing, now) ==
    IF \/ FieldTruthy(listing.mileage) /\ listing.mileage.kind # "str"
       \/ FieldTruthy(listing.price) /\ listing.price.kind # "str"
    THEN [raised |-> TRUE, has_analysis |-> FALSE,
          year |-> 0, mileage |-> 0, price |-> 0, make |-> "",
          value_estimate |-> NoEstimate, deal_score |-> NoDeal]
    ELSE Analysed(listing,
                  IF listing.make # "" THEN listing.make
                  ELSE BrandIn(listing.title, 1),
                  ParsedYear(listing.year), ParsedMileage(listing.mileage),
                  ParsedPrice(listing.price), now)


\* ---------------------------------------------------------------------- state
\* ----------------------------------------------------------------- the API
\* users has no row for the user
NoUser == "absent"

\* The requests of the user that can be under way at once.
MaxRequests == 2

RequestIds == 1..MaxRequests

\* get_subscription_limits: the yearly tiers have the limits of their base
\* tier, an unknown tier those of 'free'.
get_subscription_limits(tier) ==
    LET base == IF tier = "pro_yearly" THEN "pro"
                ELSE IF tier = "premium_yearly" THEN "premium"
                ELSE tier
        rows == {SUBSCRIPTION_LIMITS[i] : i \in 1..Len(SUBSCRIPTION_LIMITS)}
    IN  IF \E l \in rows : l.tier = base
        THEN CHOOSE l \in rows : l.tier = base
        ELSE CHOOSE l \in rows : l.tier = "free"

VARIABLES
    pc,                  \* position of run_continuous_monitoring
    tier_index,          \* position in SUBSCRIPTION_LIMITS.items()
    tier_searches,       \* the rows of the tier still to process
    tables,              \* committed rows of car_listings, deal_scores, price_history
    current_node_index,  \* DistributedScraperClient.current_node_index
    node_cooldowns,      \* DistributedScraperClient.node_cooldowns
    clock,               \* datetime.now()
    enhanced,            \* ENHANCED_SCRAPER_AVAILABLE
    mock_env,            \* the environment variable USE_MOCK_DATA
    poll,                \* outcome of the try block for the current search
    polls,               \* monitor_car_search calls per search in this cycle
    slept,               \* seconds of the sleep that preceded this cycle
    lost,                \* the batch of the last failed save, less what was saved since
    result,              \* what the last direct monitor_car_search call returned
    streak,              \* failed attempts in a row per node, counted up to 3
    current_year,        \* datetime.now().year
    valuation,           \* the last call of the value estimator and what it returned
    session,             \* the last search_cars call: the page it met, what it returned
    history,             \* searches and successes per node, as ScraperMonitor counts them
    subscription_tier,   \* users.subscription_tier of the user, NoUser without a row
    user_searches,       \* the user's rows of car_searches with is_active = TRUE
    requests             \* the POST /car-searches requests of the user

vars == << pc, tier_index, tier_searches, tables, current_node_index,
           node_cooldowns, clock, enhanced, mock_env, poll, polls, slept, lost,
           result, streak, current_year, valuation, session, history,
           subscription_tier, user_searches, requests >>

poolVars == << current_node_index, node_cooldowns >>
schedVars == << pc, tier_index, tier_searches, slept >>
configVars == << enhanced, mock_env >>
callVars == << result, streak >>
valueVars == << current_year, valuation >>
entryVars == << session >>
statsVars == << history >>
apiVars == << subscription_tier, user_searches, requests >>
otherVars == << pc, tier_index, tier_searches, tables, current_node_index,
                node_cooldowns, clock, enhanced, mock_env, poll, polls, slept,
                lost, result, streak, session, history, apiVars >>

otherVarsLessApi == << pc, tier_index, tier_searches, tables, current_node_index,
                       node_cooldowns, clock, enhanced, mock_env, poll, polls,
                       slept, lost, result, streak, session, history >>

\* get_user_subscription_tier: result[0] if result else 'free'
get_user_subscription_tier ==
    IF subscription_tier = NoUser THEN "free" ELSE subscription_tier

\* A handler that starts the moment its request is there, whatever the other
\* handlers are doing.
RunsInterleaved(r) == TRUE

\* create_car_search and delete_car_search are async def and await nothing:
\* the event loop starts a handler only when none is between its first and
\* its last statement.
RunsToCompletion(r) == \A q \in RequestIds \ {r} : requests[q].pc # "counted"

\* USE_MOCK_DATA = os.getenv("USE_MOCK_DATA", "true").lower() == "true"
USE_MOCK_DATA == mock_env \in {"unset", "true"}

\* What the scraper module reads: os.getenv('USE_MOCK_DATA', 'false')
ScraperMockEnv == IF mock_env = "unset" THEN "false" ELSE mock_env

NoPoll == [search |-> 0, done |-> FALSE, monitor_raised |-> FALSE,
           new_cars |-> <<>>, save |-> "skipped", written |-> 0,
           history_error |-> FALSE, error |-> FALSE]

NoResult == [done |-> FALSE, raised |-> FALSE, listings |-> <<>>,
             node |-> NoNode, kind |-> "none", payload |-> ListPayload(<<>>),
             strategies |-> <<>>]

\* datetime.now().year when the process starts
StartYear == 2024

NoValuation ==
    [op |-> "none", args |-> <<>>, at |-> 0, estimate |-> NoEstimate,
     deal |-> NoDeal, listing |-> NoEnriched]

NoSession ==
    [done |-> FALSE, page |-> [fault |-> "none", sign |-> "none", cards |-> <<>>],
     kind |-> "none", extracted |-> FALSE, returned |-> <<>>]

\* What a request slot holds before a request and what the handler reads:
\* distance_miles = 0 stands for a body without distance_miles.
NoRequest ==
    [pc |-> "idle", distance_miles |-> 0, tier |-> "none", current_count |-> 0,
     status |-> 0]

\* The state after construction, the row of the user in users left open.
StateInit ==
    /\ pc = "cycle_start"
    /\ tier_index = 1
    /\ tier_searches = <<>>
    /\ tables = [car_listings |-> EmptyTable, deal_scores |-> EmptyTable,
                 price_history |-> EmptyTable]
    /\ current_node_index = 0
    /\ node_cooldowns = [n \in NodeIds |-> NoCooldown]
    /\ clock = 0
    /\ enhanced \in BOOLEAN
    /\ mock_env \in {"unset", "true", "false"}
    /\ poll = NoPoll
    /\ polls = [s \in SearchIds |-> 0]
    /\ slept = 0
    /\ lost = {}
    /\ result = NoResult
    /\ streak = [n \in NodeIds |-> 0]
    /\ current_year = StartYear
    /\ valuation = NoValuation
    /\ session = NoSession
    /\ history = [n \in NodeIds |-> [searches |-> 0, successes |-> 0]]
    /\ user_searches = 0
    /\ requests = [r \in RequestIds |-> NoRequest]

\* register inserts the user with subscription_tier 'free'.
Init == StateInit /\ subscription_tier = "free"

\* ------------------------------------------------- run_continuous_monitoring
\* tier_conditions of one tier of the loop
TierConditions(tier) ==
    IF tier = "pro" THEN {"pro", "pro_yearly"}
    ELSE IF tier = "premium" THEN {"premium", "premium_yearly"}
    ELSE {tier}

\* The SELECT of the tier's active searches.
TierSearches(tier) ==
    LET rows == SelectSeq(car_searches, LAMBDA r : r.tier \in TierConditions(tier))
    IN  [i \in 1..Len(rows) |-> rows[i].id]

\* the longest of the tier intervals
MaxInterval ==
    CHOOSE m \in {SUBSCRIPTION_LIMITS[i].interval : i \in 1..Len(SUBSCRIPTION_LIMITS)} :
        \A i \in 1..Len(SUBSCRIPTION_LIMITS) : m >= SUBSCRIPTION_LIMITS[i].interval

\* min(limits['interval'] for limits in SUBSCRIPTION_LIMITS.values())
MinInterval ==
    CHOOSE m \in {SUBSCRIPTION_LIMITS[i].interval : i \in 1..Len(SUBSCRIPTION_LIMITS)} :
        \A i \in 1..Len(SUBSCRIPTION_LIMITS) : m <= SUBSCRIPTION_LIMITS[i].interval

\* A loop without the handler: the exception leaves run_continuous_monitoring.
OnCycleErrorExit == "exit"

\* except Exception as e (the handler of the while loop): time.sleep(60) is next
OnCycleError == "backoff"

\* A try block without the handler of one search_row: the exception reaches
\* the handler of the while loop.
AfterTryEscape(error) == IF error THEN "backoff" ELSE "search_pace"

\* except Exception as e (the handler of one search_row): the exception is
\* printed and time.sleep(3) is next, as after a search without error
AfterTry(error) == "search_pace"

\* while True: the statement after either sleep is the start of a cycle
LoopBack == "cycle_start"

\* while True: try: with get_db_cursor() ...: SELECT COUNT(*)
CycleStart ==
    /\ pc = "cycle_start"
    /\ \E db_ok \in BOOLEAN :
         IF db_ok
         THEN /\ pc' = "tier_query"
              /\ tier_index' = 1
              /\ polls' = [s \in SearchIds |-> 0]
         ELSE /\ pc' = OnCycleError
              /\ UNCHANGED << tier_index, polls >>
    /\ slept' = 0
    /\ UNCHANGED << lost, tier_searches, tables, poolVars, clock, configVars, valueVars, entryVars, apiVars, statsVars, poll, callVars >>

\* for tier, limits in SUBSCRIPTION_LIMITS.items(): the SELECT of the tier
TierQuery ==
    /\ pc = "tier_query"
    /\ \E db_ok \in BOOLEAN :
         IF db_ok
         THEN LET found == TierSearches(SUBSCRIPTION_LIMITS[tier_index].tier)
              IN  /\ tier_searches' = found
                  /\ pc' = IF found = <<>> THEN "tier_pace" ELSE "search"
         ELSE /\ pc' = OnCycleError
              /\ UNCHANGED tier_searches
    /\ UNCHANGED << slept, lost, tier_index, tables, poolVars, clock, configVars, valueVars, entryVars, apiVars, statsVars, poll, polls, callVars >>

\* What one attempt can meet: a node's answer with the enhanced monitor, a
\* Selenium session with CarSearchMonitor.
Outcomes == IF enhanced THEN NodeOutcomes ELSE SeleniumOutcomes

\* car_monitor.monitor_car_search(search_config). api_server imports
\* EnhancedCarSearchMonitor from enhanced_fb_scraper, a module that src/ does
\* not hold; the class of that name in enhanced_distributed_scraper.py, the
\* drop-in replacement of CarSearchMonitor, stands for it.
monitor_car_search(outcome) ==
    IF enhanced
    THEN enhanced_monitor_car_search(current_node_index, node_cooldowns, clock,
                                     outcome, ScraperMockEnv)
    ELSE [raised |-> FALSE, listings |-> basic_monitor_car_search(outcome).listings,
          cooldowns |-> node_cooldowns, index |-> current_node_index,
          node |-> NoNode, strategies |-> <<>>]

\* The mock fallback of the API after monitor_car_search returned or raised
\* `m`: if not new_cars and USE_MOCK_DATA: new_cars = get_mock_cars(...)
MockFallback(search_id, m) ==
    [raised |-> m.raised,
     cars |-> IF m.raised THEN <<>>
              ELSE IF m.listings = <<>> /\ USE_MOCK_DATA
                   THEN get_mock_cars(SearchRow(search_id))
                   ELSE m.listings,
     cooldowns |-> m.cooldowns, index |-> m.index]

\* The body of the try block up to the save: monitor_car_search, then the mock
\* fallback of the API.
AcquireCars(search_id, outcome) ==
    Only({ MockFallback(search_id, m) : m \in { monitor_car_search(outcome) } })

\* The try block of one search_row after the acquisition `a`: the exception of
\* the monitor ends it, `if new_cars:` is false on an empty list, and the
\* save is due otherwise.
AcquiredPoll(search_id, a) ==
    [search |-> search_id,
     done |-> a.raised \/ a.cars = <<>>,
     monitor_raised |-> a.raised,
     new_cars |-> a.cars,
     save |-> IF a.raised \/ a.cars = <<>> THEN "skipped" ELSE "pending",
     written |-> 0,
     history_error |-> FALSE,
     error |-> a.raised]

\* The try block after enhanced_save_car_listings returned or raised `saved`.
SavedPoll(p, saved) ==
    [p EXCEPT !.done = TRUE,
              !.save = IF saved.raised THEN "raised"
                       ELSE IF saved.committed THEN "committed"
                       ELSE "rolled_back",
              !.written = saved.written,
              !.history_error = saved.history_error,
              !.error = saved.raised]

\* The keys (search, fingerprint) of the batch of a poll.
BatchKeys(p) == { <<p.search, p.new_cars[i].fp>> : i \in 1..Len(p.new_cars) } \cap Keys

\* new_cars = car_monitor.monitor_car_search(search_config) and the mock
\* fallback, for one search id and every outcome of the attempt.
Acquire(search_id) ==
    \E outcome \in Outcomes :
        \E a \in { AcquireCars(search_id, outcome) } :
            /\ node_cooldowns' = a.cooldowns
            /\ current_node_index' = a.index
            /\ poll' = AcquiredPoll(search_id, a)

\* enhanced_save_car_listings(search_id, new_cars), with every statement that
\* can fail; every Exception is caught and printed.
Save ==
    \E fault \in Faults(poll.new_cars) :
        \E body \in { SaveBody(poll.search, poll.new_cars, tables, fault) } :
            \E saved \in { enhanced_save_car_listings(tables, body, fault) } :
                /\ Rows(saved.tables.car_listings) <= MaxRows
                /\ tables' = saved.tables
                /\ poll' = SavedPoll(poll, saved)

\* try: new_cars = car_monitor.monitor_car_search(search_config) ...
MonitorSearch ==
    /\ pc = "search"
    /\ Acquire(Head(tier_searches))
    /\ pc' = IF poll'.done THEN AfterTry(poll'.error) ELSE "save"
    /\ polls' = [polls EXCEPT ![Head(tier_searches)] = @ + 1]
    /\ UNCHANGED << tier_index, tier_searches, slept, lost, tables, clock, configVars, valueVars, entryVars, apiVars, statsVars,
                    callVars >>

\* if new_cars: enhanced_save_car_listings(search_id, new_cars) ... except
SaveNewCars ==
    /\ pc = "save"
    /\ Save
    /\ pc' = AfterTry(poll'.error)
    /\ UNCHANGED << tier_index, tier_searches, slept, lost, poolVars, clock, configVars, valueVars, entryVars, apiVars, statsVars,
                    polls, callVars >>

\* time.sleep(3), then the next search_row of the tier
SearchPace ==
    /\ pc = "search_pace"
    /\ tier_searches' = Tail(tier_searches)
    /\ pc' = IF Tail(tier_searches) = <<>> THEN "tier_pace" ELSE "search"
    /\ poll' = NoPoll
    /\ UNCHANGED << slept, lost, tier_index, tables, poolVars, clock, configVars, valueVars, entryVars, apiVars, statsVars, polls, callVars >>

\* time.sleep(5), then the next tier; after the last tier the with block is left
TierPace ==
    /\ pc = "tier_pace"
    /\ IF tier_index < Len(SUBSCRIPTION_LIMITS)
       THEN /\ tier_index' = tier_index + 1
            /\ pc' = "tier_query"
       ELSE /\ pc' = "suggest"
            /\ UNCHANGED tier_index
    /\ UNCHANGED << slept, lost, tier_searches, tables, poolVars, clock, configVars, valueVars, entryVars, apiVars, statsVars, poll, polls,
                    callVars >>

\* The commit of the cycle's cursor and update_search_suggestions()
UpdateSuggestions ==
    /\ pc = "suggest"
    /\ \E db_ok \in BOOLEAN : pc' = IF db_ok THEN "sleep" ELSE OnCycleError
    /\ UNCHANGED << slept, lost, tier_index, tier_searches, tables, poolVars, clock, configVars, valueVars, entryVars, apiVars, statsVars,
                    poll, polls, callVars >>

\* time.sleep(min_interval)
Sleep ==
    /\ pc = "sleep"
    /\ pc' = LoopBack
    /\ slept' = MinInterval
    /\ UNCHANGED << lost, tier_index, tier_searches, tables, poolVars, clock, configVars, valueVars, entryVars, apiVars, statsVars,
                    poll, polls, callVars >>

\* except Exception: time.sleep(60)
Backoff ==
    /\ pc = "backoff"
    /\ pc' = LoopBack
    /\ slept' = BACKOFF
    /\ tier_searches' = <<>>
    /\ UNCHANGED << lost, tier_index, tables, poolVars, clock, configVars, valueVars, entryVars, apiVars, statsVars, poll, polls,
                    callVars >>

\* The clock advances, up to the bound.
Tick(bound) ==
    /\ clock < bound
    /\ clock' = clock + 1
    /\ UNCHANGED << schedVars, lost, tables, poolVars, configVars, valueVars, entryVars, apiVars, statsVars, poll, polls, callVars >>

CycleTick == Tick(MaxCycleClock)

Next ==
    \/ CycleStart
    \/ TierQuery
    \/ MonitorSearch
    \/ SaveNewCars
    \/ SearchPace
    \/ TierPace
    \/ UpdateSuggestions
    \/ Sleep
    \/ Backoff
    \/ CycleTick

Spec == Init /\ [][Next]_vars

\* The thread of run_continuous_monitoring keeps running: each statement of the
\* loop that can be executed eventually is. The clock owes nothing.
LoopStep ==
    \/ CycleStart
    \/ TierQuery
    \/ MonitorSearch
    \/ SaveNewCars
    \/ SearchPace
    \/ TierPace
    \/ UpdateSuggestions
    \/ Sleep
    \/ Backoff

FairSpec == Init /\ [][Next]_vars /\ WF_vars(LoopStep)

\* ------------------------------------------------- the try block on its own
\* The try block of one search_row, run for the searches in any order: the
\* polls of a search over the cycles, without the positions of the tier loop.
\* lost remembers the batch of the last save that failed, less what a later
\* save committed.
PollSearch ==
    /\ poll = NoPoll
    /\ \E search_id \in SearchIds : Acquire(search_id)
    /\ UNCHANGED << schedVars, lost, tables, clock, configVars, valueVars, entryVars, apiVars, statsVars, polls, callVars >>

PollSave ==
    /\ poll.save = "pending"
    /\ Save
    /\ UNCHANGED << schedVars, lost, poolVars, clock, configVars, valueVars, entryVars, apiVars, statsVars, polls, callVars >>

PollDone ==
    /\ poll.done
    /\ poll' = NoPoll
    /\ lost' = IF poll.save \in {"raised", "rolled_back"} THEN BatchKeys(poll)
               ELSE IF poll.save = "committed" THEN lost \ BatchKeys(poll)
               ELSE lost
    /\ UNCHANGED << schedVars, tables, poolVars, clock, configVars, valueVars, entryVars, apiVars, statsVars, polls, callVars >>

PollNext ==
    \/ PollSearch
    \/ PollSave
    \/ PollDone

PollSpec == Init /\ [][PollNext]_vars

\* ------------------------------------------------ the monitor called directly
\* EnhancedCarSearchMonitor.monitor_car_search called on its own (the
\* synchronous entry point), with the outcome the selected node meets.
NextStreak(r, outcome) ==
    IF r.node = NoNode THEN streak
    ELSE [streak EXCEPT ![r.node] = IF outcome.kind = "ok" THEN 0
                                    ELSE IF @ < 3 THEN @ + 1 ELSE 3]

MonitorCarSearch ==
    /\ enhanced
    /\ \E outcome \in NodeOutcomes :
         \E r \in { monitor_car_search(outcome) } :
             /\ result' = [done |-> TRUE, raised |-> r.raised, listings |-> r.listings,
                           node |-> r.node, kind |-> outcome.kind,
                           payload |-> outcome.payload, strategies |-> r.strategies]
             /\ node_cooldowns' = r.cooldowns
             /\ current_node_index' = r.index
             /\ streak' = NextStreak(r, outcome)
    /\ UNCHANGED << schedVars, lost, tables, clock, configVars, valueVars, entryVars, apiVars, statsVars, poll, polls >>

PoolTick ==
    /\ enhanced
    /\ clock < MaxClock
    /\ clock' = clock + 1
    /\ result' = NoResult
    /\ UNCHANGED << schedVars, lost, tables, poolVars, configVars, valueVars, entryVars, apiVars, statsVars, poll, polls, streak >>

PoolNext ==
    \/ MonitorCarSearch
    \/ PoolTick

PoolSpec == Init /\ [][PoolNext]_vars

\* ------------------------------------------------------- the value estimator
\* The estimator called directly, on inputs from bounded sets, while the
\* calendar year of the process advances.
Vehicles == { << "Honda", "Civic" >>, << "Toyota", "Camry" >>,
              << "Tesla", "Roadster" >>, << "Honda", "unknown" >>,
              << "Mazda", "CX-5" >> }
ModelYears == { 2014, 2018, 2020, 2021, 2022 }
Mileages == { 0, 30000, 36000, 48000, 60000, 330000 }
Conditions == { "good" }

\* private-party estimates handed to calculate_deal_score, and listing prices
\* on and next to the steps of the score
Estimates == { 0, 10000, 20000 }
PricesAround(estimate) ==
    { (estimate * k) \div 100 + d : k \in { 75, 80, 90, 95, 100, 105, 110 },
                                    d \in { 0 - 1, 0, 1 } }

\* '$19,500', 'Call', '30,000 miles', '2021' as str
Price19500 == StrOf(<< "$", "1", "9", ",", "5", "0", "0" >>)
Price12000 == StrOf(<< "$", "1", "2", ",", "0", "0", "0" >>)
PriceCall == StrOf(<< "C", "a", "l", "l" >>)
Miles30000 == StrOf(<< "3", "0", ",", "0", "0", "0", " ", "m", "i", "l", "e", "s" >>)
Year2021 == StrOf(<< "2", "0", "2", "1" >>)

\* candidates as _extract_listing_data builds them (no make, no model, str
\* fields or None) and as a node's JSON may carry them (int fields)
Listings ==
    [title : { << "2021", "Honda", "Civic", "LX" >>, << "Roadster" >> },
     price : { Price19500, Price12000, PriceCall, None, IntOf(19500) },
     mileage : { Miles30000, None, IntOf(30000) },
     year : { Year2021, None, IntOf(2021) },
     make : { "" }, model : { "" }]

SearchSpecs == { [make |-> "Honda", model |-> "Civic"], [make |-> "", model |-> ""] }

EstimateValue ==
    /\ \E v \in Vehicles, year \in ModelYears, mileage \in Mileages, c \in Conditions :
          \E e \in { estimate_value(v[1], v[2], year, mileage, c, current_year) } :
             valuation' = [NoValuation EXCEPT
                              !.op = "estimate",
                              !.args = << v[1], v[2], year, mileage, c >>,
                              !.at = current_year,
                              !.estimate = e]
    /\ UNCHANGED << current_year, otherVars >>

CalculateDealScore ==
    /\ \E estimate \in Estimates :
          \E price \in PricesAround(estimate) :
             valuation' = [NoValuation EXCEPT
                              !.op = "score",
                              !.args = << price, estimate >>,
                              !.at = current_year,
                              !.deal = calculate_deal_score(price, estimate)]
    /\ UNCHANGED << current_year, otherVars >>

\* one car of the loop of enhanced_save_car_listings, lines 500-508
EnhanceListing ==
    /\ \E listing \in Listings, search \in SearchSpecs :
          \E l \in { enhance_listing(WithSearchDefaults(listing, search.make,
                                                        search.model), current_year) } :
             valuation' = [NoValuation EXCEPT
                              !.op = "enhance",
                              !.args = << listing, search >>,
                              !.at = current_year,
                              !.listing = l]
    /\ UNCHANGED << current_year, otherVars >>

\* the year changes while the process runs
NewYear ==
    /\ current_year < MaxYear
    /\ current_year' = current_year + 1
    /\ UNCHANGED << valuation, otherVars >>

ValueNext ==
    \/ EstimateValue
    \/ CalculateDealScore
    \/ EnhanceListing
    \/ NewYear

\* the estimator reads neither ENHANCED_SCRAPER_AVAILABLE nor USE_MOCK_DATA
ValueInit == Init /\ enhanced /\ mock_env = "unset"

ValueSpec == ValueInit /\ [][ValueNext]_vars

\* ------------------------------------------------- search_cars called directly
\* SeleniumFacebookCarScraper.search_cars on the page the driver meets
SearchCars ==
    /\ \E page \in Pages :
          \E o \in { SessionOutcome(page) } :
             session' = [done |-> TRUE, page |-> page, kind |-> o.kind,
                         extracted |-> o.kind = "ok", returned |-> search_cars(o)]
    /\ UNCHANGED << schedVars, tables, poolVars, clock, configVars, valueVars,
                    statsVars, apiVars, poll, polls, lost, callVars >>

SeleniumNext == SearchCars

SeleniumSpec == ValueInit /\ [][SeleniumNext]_vars

\* ------------------------------------------- the monitor with its statistics
\* monitor_car_search called directly while the outcome of every attempt on
\* a node is counted the way ScraperMonitor.record_search counts it
RecordedSearch ==
    /\ enhanced
    /\ \A n \in NodeIds : history[n].searches < MaxHistory
    /\ \E outcome \in NodeOutcomes :
         \E r \in { monitor_car_search(outcome) } :
             /\ result' = [done |-> TRUE, raised |-> r.raised, listings |-> r.listings,
                           node |-> r.node, kind |-> outcome.kind,
                           payload |-> outcome.payload, strategies |-> r.strategies]
             /\ node_cooldowns' = r.cooldowns
             /\ current_node_index' = r.index
             /\ streak' = NextStreak(r, outcome)
             /\ history' = IF r.node = NoNode THEN history
                           ELSE [history EXCEPT
                                   ![r.node] = record_search(@, outcome.kind = "ok")]
    /\ UNCHANGED << schedVars, lost, tables, clock, configVars, valueVars, entryVars, apiVars,
                    poll, polls >>

RankTick ==
    /\ enhanced
    /\ clock < MaxRankClock
    /\ clock' = clock + 1
    /\ result' = NoResult
    /\ UNCHANGED << schedVars, lost, tables, poolVars, configVars, valueVars, entryVars, apiVars,
                    statsVars, poll, polls, streak >>

RankNext ==
    \/ RecordedSearch
    \/ RankTick

RankSpec == Init /\ [][RankNext]_vars

\* ------------------------------------------------------- POST /car-searches
\* The requests of one user against the API, the user's row in users being
\* any of the tiers or missing. create_car_search is a coroutine: the event
\* loop of the one uvicorn process runs it on its thread.
UserTiers == {SUBSCRIPTION_LIMITS[i].tier : i \in 1..Len(SUBSCRIPTION_LIMITS)} \cup {NoUser}

\* search.distance_miles of a request: none, 50 and 201 miles
Distances == {0, 50, 201}

\* A request of the user reaches the server.
PostCarSearch(r) ==
    /\ requests[r].pc \in {"idle", "returned"}
    /\ \E d \in Distances :
          requests' = [requests EXCEPT ![r] = [NoRequest EXCEPT !.pc = "called",
                                                               !.distance_miles = d]]
    /\ UNCHANGED << subscription_tier, user_searches, valueVars, otherVarsLessApi >>

\* lines 1127-1136: the tier of the user and the SELECT COUNT(*)
CountSearches(r) ==
    /\ requests[r].pc = "called"
    /\ RunsToCompletion(r)
    /\ requests' = [requests EXCEPT
                      ![r].pc = "counted",
                      ![r].tier = get_user_subscription_tier,
                      ![r].current_count = user_searches]
    /\ UNCHANGED << subscription_tier, user_searches, valueVars, otherVarsLessApi >>

\* The handler has returned or raised: its locals are gone, the client has
\* the status code.
Returned(request, status) ==
    [NoRequest EXCEPT !.pc = "returned", !.status = status,
                      !.distance_miles = request.distance_miles]

\* lines 1140-1176: the two checks, then the INSERT and the commit
InsertOrReject(r) ==
    /\ requests[r].pc = "counted"
    /\ \E limits \in { get_subscription_limits(requests[r].tier) } :
          IF requests[r].current_count >= limits.max_searches
             \/ requests[r].distance_miles > limits.max_distance_miles
          THEN /\ requests' = [requests EXCEPT ![r] = Returned(@, 403)]
               /\ user_searches' = user_searches
          ELSE /\ requests' = [requests EXCEPT ![r] = Returned(@, 200)]
               /\ user_searches' = user_searches + 1
    /\ UNCHANGED << subscription_tier, valueVars, otherVarsLessApi >>

\* DELETE /car-searches/{search_id} on a search of the user
DeleteCarSearch ==
    /\ user_searches > 0
    /\ RunsToCompletion(0)
    /\ user_searches' = user_searches - 1
    /\ UNCHANGED << subscription_tier, requests, valueVars, otherVarsLessApi >>

ApiNext ==
    \/ \E r \in RequestIds : PostCarSearch(r)
    \/ \E r \in RequestIds : CountSearches(r)
    \/ \E r \in RequestIds : InsertOrReject(r)
    \/ DeleteCarSearch

ApiInit ==
    /\ StateInit
    /\ enhanced
    /\ mock_env = "unset"
    /\ subscription_tier \in UserTiers

ApiSpec == ApiInit /\ [][ApiNext]_vars

\* ===================================================================== claims
\* C1: for every search, a listing with a given fingerprint is written to
\* car_listings at most once, however often the polls of the search return it.
C1_OneRowPerFingerprint ==
    \A k \in Keys : tables.car_listings[k] <= 1

\* C2: when a cycle has gone through all the tiers, a search of the premium tier
\* has been polled at least as often as a search of any slower tier, and every
\* search has been polled.
C2_TierFairness ==
    pc = "sleep" =>
        /\ \A p \in SearchIds : \A s \in SearchIds :
               (SearchRow(p).tier = "premium"
                  /\ SearchRow(s).tier \in {"free", "pro", "pro_yearly"})
               => polls[p] >= polls[s]
        /\ \A s \in SearchIds : polls[s] >= 1

\* C3: a node whose attempts failed three times in a row is returned by
\* get_next_available_node at no clock value before its cooldown timestamp,
\* whatever the index, and is returned when the index points at it once the
\* clock has reached the timestamp.
C3_CooldownEnforced ==
    \A n \in NodeIds :
        streak[n] >= 3 =>
            /\ node_cooldowns[n] # NoCooldown
            /\ \A now \in clock..(MaxClock + COOLDOWN) :
                   IF now < node_cooldowns[n]
                   THEN \A idx \in 0..(Len(nodes) - 1) :
                            get_next_available_node(idx, node_cooldowns, now).node # n
                   ELSE get_next_available_node(IndexOf(n), node_cooldowns, now).node = n

C3_Witness ==
    \E n \in NodeIds : streak[n] >= 3 /\ clock >= node_cooldowns[n]

\* C4, as stated: a call of monitor_car_search made while every node is in
\* cooldown returns an empty list, raises nothing, and leaves node_cooldowns
\* and current_node_index as they were.
C4_EmptyWhenAllCooling ==
    [][ (result'.done /\ \A n \in NodeIds : InCooldown(node_cooldowns, n, clock))
        => /\ result'.listings = <<>>
           /\ ~result'.raised
           /\ node_cooldowns' = node_cooldowns
           /\ current_node_index' = current_node_index ]_vars

\* C4, amended: a call of monitor_car_search made while every node is in
\* cooldown raises nothing, leaves node_cooldowns and current_node_index as
\* they were, and returns an empty list unless the environment sets
\* USE_MOCK_DATA to 'true', in which case it returns the five listings of
\* _try_mock_data.
C4_EmptyOrMockWhenAllCooling ==
    [][ (result'.done /\ \A n \in NodeIds : InCooldown(node_cooldowns, n, clock))
        => /\ result'.listings =
                 IF mock_env = "true"
                 THEN [i \in 1..MOCK_COUNT |-> Item(ScraperMockFp, "int", TRUE)]
                 ELSE <<>>
           /\ ~result'.raised
           /\ node_cooldowns' = node_cooldowns
           /\ current_node_index' = current_node_index ]_vars

C4_Witness ==
    /\ result.done
    /\ result.node = NoNode
    /\ result.listings = <<>>
    /\ current_node_index = 1
    /\ \A n \in NodeIds : InCooldown(node_cooldowns, n, clock)

\* C5: monitor_car_search never raises to its caller, whatever the node or
\* the strategy meets.
C5_MonitorNeverRaises ==
    ~result.raised

\* C6: an exception raised in the try block of one search (by the monitor, by
\* the enrichment or by the save) is caught there: the loop goes on to the
\* pacing sleep of that search with the remaining searches of the tier and the
\* position in the tiers untouched, as after a search without error.
C6_SearchErrorContained ==
    [][ (pc \in {"search", "save"} /\ poll'.done /\ poll'.error)
        => /\ pc' = "search_pace"
           /\ tier_searches' = tier_searches
           /\ tier_index' = tier_index ]_vars

C6_Witness ==
    /\ pc = "search_pace"
    /\ poll.error
    /\ poll.save = "raised"
    /\ Len(tier_searches) > 1

\* C7: run_continuous_monitoring never stops: a new cycle starts again and
\* again, and an exception that escapes a cycle leads to the 60 s sleep and
\* then to the start of a new cycle.
C7_LoopNeverTerminates ==
    /\ []<>(pc = "cycle_start")
    /\ (pc = "backoff") ~> (pc = "cycle_start" /\ slept = BACKOFF)

C7_Witness ==
    /\ pc = "cycle_start"
    /\ slept = BACKOFF
    /\ \E k \in Keys : tables.car_listings[k] > 0

\* C8: a listing is persisted only after its fingerprint has been checked
\* against what the search has already persisted: no poll adds a row for a
\* fingerprint that already has one under the search.
C8_CheckedBeforePersisted ==
    [][ \A k \in Keys :
            tables.car_listings[k] > 0
            => tables'.car_listings[k] = tables.car_listings[k] ]_vars

\* C9: a failed save records no 'seen' state: when a later poll of the same
\* search returns listings of the failed batch and its save is committed, each
\* of them is persisted as a new row.
C9_LostListingsSavedAsNew ==
    [][ (~poll.done /\ poll'.done /\ poll'.save = "committed")
        => \A k \in BatchKeys(poll') \cap lost :
               tables'.car_listings[k] > tables.car_listings[k] ]_vars

C9_Witness ==
    /\ poll.done
    /\ poll.save = "committed"
    /\ BatchKeys(poll) \cap lost # {}

\* C10: enhanced_save_car_listings is atomic per batch: a save that fails
\* commits no row of car_listings, deal_scores or price_history, and no poll
\* changes the rows of another search.
C10_SaveAtomic ==
    [][ (~poll.done /\ poll'.done)
        => /\ poll'.save \in {"raised", "rolled_back"} => tables' = tables
           /\ \A k \in Keys :
                  k[1] # poll'.search
                  => /\ tables'.car_listings[k] = tables.car_listings[k]
                     /\ tables'.deal_scores[k] = tables.deal_scores[k]
                     /\ tables'.price_history[k] = tables.price_history[k] ]_vars

C10_Witness ==
    /\ poll.done
    /\ poll.save = "raised"
    /\ poll.written > 0
    /\ \E k \in Keys : k[1] # poll.search /\ tables.car_listings[k] > 0

\* C11: a failed INSERT into price_history does not block the listings: the
\* save in which it happened still commits a row of car_listings for every
\* listing of the batch.
C11_HistoryFailureKeepsListings ==
    [][ (~poll.done /\ poll'.done /\ poll'.history_error)
        => /\ poll'.save = "committed"
           /\ \A k \in BatchKeys(poll') :
                  tables'.car_listings[k] > tables.car_listings[k] ]_vars

\* C12: mock listings are acquired and saved only when the environment sets
\* USE_MOCK_DATA to 'true': with the variable unset or 'false' no poll holds a
\* mock listing and car_listings has no row of one.
C12_MockOnlyWhenEnabled ==
    mock_env # "true" =>
        /\ \A i \in 1..Len(poll.new_cars) :
               poll.new_cars[i].fp \notin MockFps \cup {ScraperMockFp}
        /\ \A k \in Keys : k[2] \in MockFps => tables.car_listings[k] = 0

\* What the distributed strategy handed to search in the last call: the list
\* of a 200 response of the selected node, nothing without a node, after a
\* failure, or when the value is no list.
C13_FromNodes ==
    IF result.node # NoNode /\ result.kind = "ok" /\ result.payload.type = "list"
    THEN result.payload.items
    ELSE <<>>

C13_FromMock ==
    IF ScraperMockEnv = "true"
    THEN [i \in 1..MOCK_COUNT |-> Item(ScraperMockFp, "int", TRUE)]
    ELSE <<>>

\* C13, as stated: search stops at the first strategy that returns listings:
\* no later strategy is attempted and only its listings are returned.
C13_FirstNonEmptyOnly ==
    (result.done /\ ~result.raised) =>
        IF C13_FromNodes # <<>>
        THEN /\ result.strategies = <<"distributed">>
             /\ result.listings = C13_FromNodes
        ELSE /\ result.strategies = <<"distributed", "craigslist", "mock">>
             /\ result.listings = C13_FromMock

\* C13, amended: search attempts the strategies in the fixed order and stops
\* after the distributed nodes only when they returned at least 5 listings;
\* otherwise the secondary source and the synthetic generator are attempted
\* too, and the list returned is the concatenation of all the results.
C13_BreakOnFiveElseMerge ==
    (result.done /\ ~result.raised) =>
        IF Len(C13_FromNodes) >= GOOD_RESULTS
        THEN /\ result.strategies = <<"distributed">>
             /\ result.listings = C13_FromNodes
        ELSE /\ result.strategies = <<"distributed", "craigslist", "mock">>
             /\ result.listings = C13_FromNodes \o C13_FromMock

C13_Witness ==
    /\ result.done
    /\ ~result.raised
    /\ C13_FromNodes # <<>>
    /\ Len(result.listings) = Len(C13_FromNodes) + MOCK_COUNT

\* C14: when the attempt on the selected node raises, times out or answers
\* with a status other than 200, that node and no other is put in cooldown
\* (until now + 5 minutes), in the same way in the three cases, and search goes
\* on with the next strategies of the chain.
C14_FailureCoolsSelectedNode ==
    [][ (result'.done /\ result'.node # NoNode
           /\ result'.kind \in {"exception", "timeout", "non200"})
        => /\ node_cooldowns' =
                  [node_cooldowns EXCEPT ![result'.node] = clock + COOLDOWN]
           /\ result'.strategies = <<"distributed", "craigslist", "mock">>
           /\ ~result'.raised
           /\ result'.listings = try_craigslist_fallback \o try_mock_data(ScraperMockEnv) ]_vars

C14_Witness ==
    /\ result.done
    /\ result.node # NoNode
    /\ result.kind = "timeout"
    /\ node_cooldowns[result.node] = clock + COOLDOWN
    /\ \E n \in NodeIds : node_cooldowns[n] = NoCooldown

\* C15: an attempt that ends without error and returns no listing is neutral:
\* node_cooldowns is left as it was for every node, and the node is returned
\* by the next selection that inspects it.
C15_EmptyAnswerIsNeutral ==
    [][ (result'.done /\ result'.node # NoNode /\ result'.kind = "ok"
           /\ result'.payload = ListPayload(<<>>))
        => /\ node_cooldowns' = node_cooldowns
           /\ get_next_available_node(IndexOf(result'.node), node_cooldowns',
                                      clock).node = result'.node ]_vars

C15_Witness ==
    /\ result.done
    /\ result.node # NoNode
    /\ result.kind = "ok"
    /\ result.payload = ListPayload(<<>>)
    /\ \E n \in NodeIds : InCooldown(node_cooldowns, n, clock)


\* C16: a listing priced exactly at a positive private-party estimate is
\* rated in the fair / market-price band, and a listing priced 25% below the
\* estimate is rated in the top band.
C16_FairAtEstimateTopAtQuarterBelow ==
    (valuation.op = "score" /\ valuation.deal.estimated_value > 0) =>
        /\ valuation.deal.listing_price = valuation.deal.estimated_value
              => valuation.deal.rating = "FAIR PRICE"
        /\ 4 * valuation.deal.listing_price = 3 * valuation.deal.estimated_value
              => valuation.deal.rating = "HOT DEAL"

\* C17: the rating follows the percent difference by the bands: at least 20%
\* below the estimate hot deal, at least 10% great deal, at least 5% good
\* deal, at least 0% fair, negative differences market price down to
\* overpriced.
C17_RatingBands ==
    (valuation.op = "score" /\ valuation.deal.estimated_value > 0) =>
        LET diff == valuation.deal.estimated_value - valuation.deal.listing_price
            pp == valuation.deal.estimated_value
        IN  valuation.deal.rating =
                IF 100 * diff >= 20 * pp THEN "HOT DEAL"
                ELSE IF 100 * diff >= 10 * pp THEN "GREAT DEAL"
                ELSE IF 100 * diff >= 5 * pp THEN "GOOD DEAL"
                ELSE IF 100 * diff >= 0 THEN "FAIR PRICE"
                ELSE valuation.deal.rating


\* the candidate '2021 Honda Civic LX', '$19,500', '30,000 miles' of a Honda
\* Civic search, enriched when it is 3 years old
C18_Case ==
    /\ valuation.op = "enhance"
    /\ valuation.args[1] = [title |-> << "2021", "Honda", "Civic", "LX" >>,
                            price |-> Price19500, mileage |-> Miles30000,
                            year |-> Year2021, make |-> "", model |-> ""]
    /\ valuation.args[2] = [make |-> "Honda", model |-> "Civic"]
    /\ valuation.at - 2021 = 3

C19_FlooredAtTenthOfBase ==
    (valuation.op = "estimate" /\ valuation.args[5] = "good") =>
        valuation.estimate.depreciated_value >= valuation.estimate.base_price \div 10


\* C20: two calls of estimate_value with the same make, model, year, mileage
\* and condition, at any two points of the process lifetime, return the same
\* values and the same confidence.
C20_SameArgumentsSameEstimate ==
    [][ (/\ valuation.op = "estimate"
         /\ valuation'.op = "estimate"
         /\ valuation'.args = valuation.args)
        => /\ valuation'.estimate.values = valuation.estimate.values
           /\ valuation'.estimate.confidence = valuation.estimate.confidence ]_vars


\* the private-party value of the last estimate_value call, had the mileage
\* been unknown
C21_Unadjusted ==
    IF valuation.op = "estimate"
    THEN estimate_value(valuation.args[1], valuation.args[2], valuation.args[3],
                        0, valuation.args[5], valuation.at).values
    ELSE NoEstimate.values

C21_Abs(n) == IF n >= 0 THEN n ELSE 0 - n

\* C21: with the mileage equal to the expected mileage (car age x 12,000)
\* the four values equal those of an unknown mileage, and with any mileage
\* the private-party value is the unadjusted one scaled by 1 - 0.005 per
\* 1,000 miles of deviation (200 - deviation / 1000 parts in 200), up to the
\* truncation of both values to whole dollars.
C21_ZeroAtExpectedProportionalElse ==
    (valuation.op = "estimate" /\ valuation.args[4] # 0) =>
        LET deviation == valuation.args[4]
                           - (valuation.at - valuation.args[3]) * average_miles_per_year
            parts == 200 - deviation \div 1000
        IN  /\ deviation = 0 => valuation.estimate.values = C21_Unadjusted
            /\ deviation % 1000 = 0 =>
                  C21_Abs(200 * valuation.estimate.values.private_party
                        - parts * C21_Unadjusted.private_party) <= 200 + C21_Abs(parts)

C21_Witness ==
    /\ valuation.op = "estimate"
    /\ valuation.args[4] # 0
    /\ valuation.args[4] = (valuation.at - valuation.args[3]) * average_miles_per_year
    /\ valuation.estimate.values.private_party > 0


\* C22: enriching a candidate whose year, mileage or price is absent, empty,
\* non-numeric or no str never raises; the field is unknown, the listing is
\* returned, and has_analysis is false when make, year or price is unknown.
C22_EnrichmentNeverRaises ==
    valuation.op = "enhance" =>
        /\ ~valuation.listing.raised
        /\ (\/ valuation.listing.make = ""
            \/ valuation.listing.year = 0
            \/ valuation.listing.price = 0) => ~valuation.listing.has_analysis


\* the pages that are fetched without error and hold no listing
C23_EmptyPages ==
    { p \in Pages : SessionOutcome(p).kind = "ok" /\ SessionOutcome(p).listings = <<>> }

\* C23: when the fetched page is a login wall or a block page, extraction is
\* skipped and what search_cars returns differs from what it returns for a
\* page fetched without error that holds no listings.
C23_WallDistinctFromEmpty ==
    (session.done /\ session.page.fault = "none" /\ IsWall(session.page)) =>
        /\ ~session.extracted
        /\ \A p \in C23_EmptyPages :
              p.sign = "none" => search_cars(SessionOutcome(p)) # session.returned


\* C24: whenever two nodes are both available, the node with the higher
\* recorded success rate is selected before the one with the lower rate.
C24_HigherRateSelectedFirst ==
    [][ (result'.done /\ result'.node # NoNode) =>
          \A other \in NodeIds :
             ~InCooldown(node_cooldowns, other, clock)
                => ~HigherSuccessRate(history, other, result'.node) ]_vars


\* C25: the sleep that ends a cycle is taken only when the loop over the
\* tiers has gone through its last tier, and it lasts 300 s, the least of
\* the tier intervals, never longer than any tier's interval.
C25_SleepAfterAllTiersMinInterval ==
    [][ (pc = "sleep" /\ pc' # "sleep") =>
          /\ tier_index = Len(SUBSCRIPTION_LIMITS)
          /\ tier_searches = <<>>
          /\ slept' = 300
          /\ \A i \in 1..Len(SUBSCRIPTION_LIMITS) :
                slept' <= SUBSCRIPTION_LIMITS[i].interval ]_vars

C25_Witness ==
    pc = "cycle_start" /\ slept = 300 /\ tier_index = Len(SUBSCRIPTION_LIMITS)


\* the (make, model) pair of the last estimate_value call has an exact entry
\* in the reference table
C26_ExactEntry ==
    /\ valuation.op = "estimate"
    /\ str_lower(valuation.args[1]) \in DOMAIN base_msrp
    /\ str_lower(valuation.args[2]) \in DOMAIN base_msrp[str_lower(valuation.args[1])]

\* the base price by make default, then global default of 30000
C26_Fallback ==
    IF str_lower(valuation.args[1]) \in DOMAIN default_prices
    THEN default_prices[str_lower(valuation.args[1])] * FIXED
    ELSE 30000 * FIXED

\* C26 as stated: the base reference price is the entry of the (make, model)
\* table when there is one, else the default of the make, else 30000; and
\* the confidence is 'high' exactly when there is an exact entry.
C26_TableThenMakeThenGlobal ==
    valuation.op = "estimate" =>
        /\ valuation.estimate.base_price =
              IF C26_ExactEntry
              THEN base_msrp[str_lower(valuation.args[1])][str_lower(valuation.args[2])] * FIXED
              ELSE C26_Fallback
        /\ valuation.estimate.confidence = "high" <=> C26_ExactEntry

\* C26 amended: as above, but the table entry counts as it stands only for
\* model years up to 2020 and is scaled by 1 - 0.02 * (2024 - year) for the
\* model years after 2020.
C26_TableScaledThenMakeThenGlobal ==
    valuation.op = "estimate" =>
        /\ valuation.estimate.base_price =
              IF C26_ExactEntry
              THEN IF valuation.args[3] > 2020
                   THEN base_msrp[str_lower(valuation.args[1])][str_lower(valuation.args[2])]
                           * (100 - 2 * (2024 - valuation.args[3])) * (FIXED \div 100)
                   ELSE base_msrp[str_lower(valuation.args[1])][str_lower(valuation.args[2])]
                           * FIXED
              ELSE C26_Fallback
        /\ valuation.estimate.confidence = "high" <=> C26_ExactEntry

C26_Witness ==
    /\ valuation.op = "estimate"
    /\ ~C26_ExactEntry
    /\ valuation.args[1] = "Mazda"
    /\ valuation.estimate.base_price = 26000 * FIXED
    /\ valuation.estimate.confidence = "low"


\* C27: when a cycle has gone through all the tiers, monitor_car_search has
\* been invoked exactly once for every active search, whatever the tier of
\* its owner.
C27_EachSearchPolledOnce ==
    pc = "sleep" => \A s \in SearchIds : polls[s] = 1


\* C28: in every reachable state of the pool, at every index and every time
\* from the clock on, one call of get_next_available_node reads no node twice;
\* it returns a node that is not in cooldown whenever there is one, and no
\* node only when all of them are in cooldown; and when no node is in
\* cooldown it returns the node under the index and moves the index one
\* place on, cyclically, so that the following call returns the following
\* node.
C28_Available(now) == {n \in NodeIds : ~InCooldown(node_cooldowns, n, now)}

C28_SelectsAvailableRoundRobin ==
    \A idx \in 0..(Len(nodes) - 1) : \A now \in clock..(MaxClock + COOLDOWN) :
        LET r    == get_next_available_node(idx, node_cooldowns, now)
            seen == InspectedNodes(idx, node_cooldowns, now, 0)
        IN  /\ Len(seen) <= Len(nodes)
            /\ \A i \in 1..Len(seen) : \A j \in 1..Len(seen) :
                   seen[i] = seen[j] => i = j
            /\ (C28_Available(now) # {}) => r.node \in C28_Available(now)
            /\ (r.node = NoNode) <=> (C28_Available(now) = {})
            /\ (C28_Available(now) = NodeIds) =>
                   /\ r.node = nodes[idx + 1]
                   /\ r.index = (idx + 1) % Len(nodes)
                   /\ get_next_available_node(r.index, node_cooldowns, now).node
                          = nodes[((idx + 1) % Len(nodes)) + 1]

C28_Witness ==
    /\ result.done
    /\ \E n \in NodeIds :
          /\ InCooldown(node_cooldowns, n, clock)
          /\ current_node_index = IndexOf(n)
          /\ get_next_available_node(current_node_index, node_cooldowns, clock).node
                 \in NodeIds \ {n}
    /\ \E n \in NodeIds : result.node = n


\* C29: however the create_car_search requests of one user interleave, the
\* active searches of the user never number more than the max_searches of
\* the user's tier (3 free, 15 pro, 25 premium, the yearly tiers as their
\* base tier); a request handled when the limit is reached is answered 403,
\* and a request answered 403 leaves the number of searches as it was.
C29_MaxSearches ==
    IF subscription_tier \in {"pro", "pro_yearly"} THEN 15
    ELSE IF subscription_tier \in {"premium", "premium_yearly"} THEN 25
    ELSE 3

C29_NeverOverMaxSearches ==
    /\ [](user_searches <= C29_MaxSearches)
    /\ [][ \A r \in RequestIds :
              (requests[r].pc = "counted" /\ requests'[r].pc = "returned") =>
                  /\ (user_searches >= C29_MaxSearches => requests'[r].status = 403)
                  /\ (requests'[r].status = 403 => user_searches' = user_searches) ]_vars

C29_Witness ==
    /\ user_searches = C29_MaxSearches
    /\ \E r \in RequestIds : \E q \in RequestIds \ {r} :
          /\ requests[r].pc = "returned"
          /\ requests[r].status = 403
          /\ requests[r].distance_miles = 0
          /\ requests[q].pc = "returned"
          /\ requests[q].status = 200


\* C30: the score calculate_deal_score has returned for a positive estimate
\* lies within 0..100, and against every other price for the same estimate
\* it is monotone: a lower price scores at least as high, a higher price at
\* most as high.
C30_OtherPrices ==
    PricesAround(valuation.deal.estimated_value)
        \cup {0, 2 * valuation.deal.estimated_value}

C30_ScoreBoundedAndMonotone ==
    (valuation.op = "score" /\ valuation.deal.estimated_value > 0) =>
        /\ ~valuation.deal.raised
        /\ valuation.deal.score \in 0..100
        /\ \A other \in C30_OtherPrices :
               LET s == calculate_deal_score(other,
                                             valuation.deal.estimated_value).score
               IN  /\ other <= valuation.deal.listing_price
                         => s >= valuation.deal.score
                   /\ other >= valuation.deal.listing_price
                         => s <= valuation.deal.score

C30_Witness ==
    /\ valuation.op = "score"
    /\ valuation.deal.estimated_value > 0
    /\ valuation.deal.listing_price > valuation.deal.estimated_value
    /\ \E other \in C30_OtherPrices :
          /\ other < valuation.deal.listing_price
          /\ calculate_deal_score(other, valuation.deal.estimated_value).score
                 > valuation.deal.score

====
